---- MODULE Spec2Model ----
(***************************************************************************)
(* GaussianLib: the fixed-size Matrix<T, Rows, Cols> and Vector3T<T>       *)
(* value types of include/Gauss/Matrix.h and include/Gauss/Vector3.h,      *)
(* over an integer scalar T.                                               *)
(*                                                                         *)
(* A matrix value is a record [rows, cols, m]: the two template arguments  *)
(* and the physical buffer m_ as a function on 0 .. rows*cols-1.  The     *)
(* storage layout (GS_ROW_MAJOR_STORAGE defined or not) and whether        *)
(* GS_ASSERT is compiled in are build options: they are chosen once, in    *)
(* the initial state, and never change.                                    *)
(***************************************************************************)
EXTENDS Integers, Sequences, FiniteSets

VARIABLES
    layout,     \* "RowMajor" (GS_ROW_MAJOR_STORAGE) or "ColMajor" (the default)
    asserts,    \* TRUE: GS_ASSERT aborts on failure; FALSE: compiled out
    pc,         \* the operation that produced the current state
    A,          \* a matrix object (the left operand, *this, the chain's target)
    A0,         \* the value A held when the run started
    B,          \* a second matrix object (the right operand)
    B0,         \* the value B held when the run started
    R,          \* the matrix an operation returned
    swaps,      \* the std::swap calls of Transpose(), as pairs of physical indices
    stream,     \* [base, step]: the values handed to the initializer chain
    element_,   \* Initializer::element_, the chain's cursor
    lastAt,     \* where the chain's last value was addressed: [row, col, offset]
    va,         \* a vector object (the left operand, *this)
    va0,        \* the value va held when the run started
    vb,         \* a second vector object (the right operand)
    vb0,        \* the value vb held when the run started
    sc,         \* the scalar operand of the last operation
    vr          \* the vector an operation returned

vars == <<layout, asserts, pc, A, A0, B, B0, R, swaps, stream, element_, lastAt,
          va, va0, vb, vb0, sc, vr>>

matVars   == <<A, A0, B, B0, R, swaps>>
chainVars == <<stream, element_, lastAt>>
vecVars   == <<va, va0, vb, vb0, sc, vr>>

(***************************************************************************)
(* Bounds of the model.                                                    *)
(***************************************************************************)
MaxDim   == 3   \* Rows, Cols and the inner dimension range over 1 .. MaxDim
MaxBase  == 2   \* first value of an input sequence: 0 .. MaxBase
MaxStep  == 1   \* difference of consecutive input values: 0 .. MaxStep
MaxExtra == 2   \* values fed to a chain beyond Rows*Cols
MaxComp  == 2   \* vector components and scalars range over -MaxComp .. MaxComp

Dims    == 1 .. MaxDim
Layouts == {"RowMajor", "ColMajor"}

\* The contents an object may hold where the code leaves it uninitialized.
Indeterminate == {-1, MaxBase + 1}

(***************************************************************************)
(* Matrix: element access.                                                 *)
(***************************************************************************)

\* Matrix::operator()(row, col): the physical offset of a logical element.
Index(Rows, Cols, row, col) ==
    IF layout = "RowMajor" THEN row * Cols + col ELSE col * Rows + row

\* GS_ASSERT(row < Rows); GS_ASSERT(col < Cols): TRUE when the access goes on.
BoundsAssertPasses(Rows, Cols, row, col) ==
    asserts => (row < Rows /\ col < Cols)

\* Matrix::operator()(row, col) const, read.
Get(M, row, col) == M.m[Index(M.rows, M.cols, row, col)]

\* Matrix::operator()(row, col) = v.
Set(M, row, col, v) ==
    [M EXCEPT !.m[Index(M.rows, M.cols, row, col)] = v]

\* Matrix(UninitializeTag): every element indeterminate.
Uninitialized(Rows, Cols) ==
    { [rows |-> Rows, cols |-> Cols, m |-> [i \in 0 .. Rows * Cols - 1 |-> g]] :
        g \in Indeterminate }

\* Matrix::Reset(): every element T(0).
Reset(M) == [M EXCEPT !.m = [i \in DOMAIN M.m |-> 0]]

\* Matrix(): Reset(), unless GS_DISABLE_AUTO_INIT leaves the elements as they are.
DefaultConstructed(Rows, Cols) ==
    Uninitialized(Rows, Cols) \cup { Reset(M) : M \in Uninitialized(Rows, Cols) }

\* Matrix::operator=(rhs): element-wise copy of the physical buffer.
Assign(this, rhs) == [this EXCEPT !.m = [i \in DOMAIN this.m |-> rhs.m[i]]]

\* __GS_FOREACH_ROW_COL__(r, c): the <<r, c>> pairs in the order the macro visits them.
ForeachRowCol(Rows, Cols) ==
    IF layout = "RowMajor"
    THEN [k \in 1 .. Rows * Cols |-> <<(k - 1) \div Cols, (k - 1) % Cols>>]
    ELSE [k \in 1 .. Rows * Cols |-> <<(k - 1) % Rows, (k - 1) \div Rows>>]

(***************************************************************************)
(* Matrix: identity and transposition.                                     *)
(***************************************************************************)

\* A plausible slip: ones on the anti-diagonal.
AntiIdentityElement(N, r, c) == IF r + c = N - 1 THEN 1 ELSE 0

\* LoadIdentity's loop body: (r == c ? T(1) : T(0)).
IdentityElement(N, r, c) == IF r = c THEN 1 ELSE 0

RECURSIVE LoadIdentityFrom(_, _, _)
LoadIdentityFrom(M, order, k) ==
    IF k > Len(order) THEN M
    ELSE LoadIdentityFrom(
             Set(M, order[k][1], order[k][2],
                 IdentityElement(M.rows, order[k][1], order[k][2])),
             order, k + 1)

\* Matrix::LoadIdentity() (Rows == Cols by static_assert).
LoadIdentity(M) == LoadIdentityFrom(M, ForeachRowCol(M.rows, M.cols), 1)

\* Matrix::Identity(): a default-constructed matrix, then LoadIdentity().
Identity(N) == { LoadIdentity(result) : result \in DefaultConstructed(N, N) }

RECURSIVE TransposedFrom(_, _, _, _)
TransposedFrom(this, result, order, k) ==
    IF k > Len(order) THEN result
    ELSE TransposedFrom(
             this,
             Set(result, order[k][2], order[k][1],
                 Get(this, order[k][1], order[k][2])),
             order, k + 1)

\* A plausible slip: the buffer copied as it is into the Cols x Rows result.
TransposedRawCopy(this, result) == Assign(result, this)

\* Matrix::Transposed() const, with `result` the default-constructed
\* TransposedType it starts from.
TransposedInto(this, result) ==
    TransposedFrom(this, result, ForeachRowCol(this.rows, this.cols), 1)

Transposed(this) ==
    { TransposedInto(this, result) : result \in DefaultConstructed(this.cols, this.rows) }

\* A plausible slip: Cols instead of Cols + 1 in the first index.
SwapIndicesNoDiagonalStride(Cols, i, j) == <<i * Cols + j, (j + i) * Cols + i>>

\* The two physical indices Transpose() hands to std::swap.
SwapIndices(Cols, i, j) == <<i * (Cols + 1) + j, (j + i) * Cols + i>>

\* std::swap(m_[p], m_[q]), recorded in the log.
SwapStep(st, pq) ==
    [mat   |-> [st.mat EXCEPT !.m = [st.mat.m EXCEPT ![pq[1]] = st.mat.m[pq[2]],
                                                     ![pq[2]] = st.mat.m[pq[1]]]],
     swaps |-> Append(st.swaps, pq)]

RECURSIVE TransposeInner(_, _, _)
TransposeInner(st, i, j) ==
    IF j + i < st.mat.cols
    THEN TransposeInner(SwapStep(st, SwapIndices(st.mat.cols, i, j)), i, j + 1)
    ELSE st

\* A plausible slip: the inner loop starting at the diagonal.
TransposeRowFromDiagonal(st, i) == TransposeInner(st, i, 0)

\* The inner loop of Transpose(): for (j = 1; j + i < Cols; ++j).
TransposeRow(st, i) == TransposeInner(st, i, 1)

RECURSIVE TransposeOuter(_, _)
TransposeOuter(st, i) ==
    IF i + 1 < st.mat.cols THEN TransposeOuter(TransposeRow(st, i), i + 1) ELSE st

\* Matrix::Transpose() (Rows == Cols by static_assert): the matrix afterwards
\* and the swaps it made.
TransposeRun(this) == TransposeOuter([mat |-> this, swaps |-> <<>>], 0)

Transpose(this) == TransposeRun(this).mat

(***************************************************************************)
(* Matrix: multiplication.                                                 *)
(***************************************************************************)

RECURSIVE MulInner(_, _, _, _, _, _)
MulInner(result, lhs, rhs, r, c, i) ==
    IF i < lhs.cols
    THEN MulInner(Set(result, r, c, Get(result, r, c) + Get(lhs, r, i) * Get(rhs, i, c)),
                  lhs, rhs, r, c, i + 1)
    ELSE result

\* A plausible slip: the element is not zeroed before it accumulates.
MulElementNoZero(result, lhs, rhs, r, c) == MulInner(result, lhs, rhs, r, c, 0)

\* result(r, c) = T(0); for (i ...) result(r, c) += lhs(r, i)*rhs(i, c);
MulElement(result, lhs, rhs, r, c) == MulInner(Set(result, r, c, 0), lhs, rhs, r, c, 0)

RECURSIVE MulCols(_, _, _, _, _)
MulCols(result, lhs, rhs, r, c) ==
    IF c < rhs.cols
    THEN MulCols(MulElement(result, lhs, rhs, r, c), lhs, rhs, r, c + 1)
    ELSE result

RECURSIVE MulRows(_, _, _, _)
MulRows(result, lhs, rhs, r) ==
    IF r < lhs.rows
    THEN MulRows(MulCols(result, lhs, rhs, r, 0), lhs, rhs, r + 1)
    ELSE result

\* operator * (Matrix<T, Rows, ColsRows>, Matrix<T, ColsRows, Cols>), with
\* `result` the Matrix(UninitializeTag) it starts from.
MulInto(lhs, rhs, result) == MulRows(result, lhs, rhs, 0)

Mul(lhs, rhs) == { MulInto(lhs, rhs, result) : result \in Uninitialized(lhs.rows, rhs.cols) }

\* A plausible slip: the operands of the product exchanged.
MulAssignSwapped(this, rhs) == { Assign(this, tmp) : tmp \in Mul(rhs, this) }

\* Matrix::operator *= (const ThisType& rhs): *this = (*this * rhs).
MulAssign(this, rhs) == { Assign(this, tmp) : tmp \in Mul(this, rhs) }

(***************************************************************************)
(* Matrix: the initializer chain  matrix << v0, v1, v2, ...                *)
(***************************************************************************)

\* A plausible slip: the cursor taken in column-major logical order.
InitializerTargetByColumn(Rows, Cols, element) == <<element % Rows, element \div Rows>>

\* The logical (row, col) Initializer::operator , addresses:
\* matrix_(element_ / Cols, element_ % Cols).
InitializerTarget(Rows, Cols, element) == <<element \div Cols, element % Cols>>

\* A plausible slip: the value stored at m_[element_], in physical order.
InitializerCommaPhysical(M, element, nextValue) ==
    [M EXCEPT !.m[element] = nextValue]

\* Initializer::operator , (nextValue) for an access that stays inside the buffer:
\* the matrix afterwards.  The cursor's ++element_ is the caller's e + 1.
InitializerComma(M, element, nextValue) ==
    LET rc == InitializerTarget(M.rows, M.cols, element)
    IN  Set(M, rc[1], rc[2], nextValue)

\* Value number i of the sequence [base, step].
ValueAt(seq, i) == seq.base + seq.step * i

\* Matrix<T, Rows, Cols> m;  (auto-init: all zero)
ZeroMatrix(Rows, Cols) ==
    [rows |-> Rows, cols |-> Cols, m |-> [i \in 0 .. Rows * Cols - 1 |-> 0]]

\* The logical <<row, col>> stored at physical offset p: the inverse of Index.
LogicalAt(Rows, Cols, p) ==
    IF layout = "RowMajor" THEN <<p \div Cols, p % Cols>> ELSE <<p % Rows, p \div Rows>>

\* The Rows x Cols matrix whose logical element (r, c) is base + step*(r*Cols + c):
\* what  m << base, base + step, base + 2*step, ...  leaves in m.
Fill(Rows, Cols, base, step) ==
    [rows |-> Rows, cols |-> Cols,
     m    |-> [p \in 0 .. Rows * Cols - 1 |->
                 LET rc == LogicalAt(Rows, Cols, p)
                 IN  base + step * (rc[1] * Cols + rc[2])]]

\* The matrices the runs start from.
Inputs(Rows, Cols) ==
    { Fill(Rows, Cols, base, step) : base \in 0 .. MaxBase, step \in 0 .. MaxStep }

\* The operands of the documented 2x3 by 3x2 product.
ScenarioLhs == Fill(2, 3, 1, 1)
ScenarioRhs == Fill(3, 2, 7, 1)

IsSquare(M) == M.rows = M.cols

(***************************************************************************)
(* Idle values of the variables a specification does not use.              *)
(***************************************************************************)
IdleMatrix == [rows |-> 1, cols |-> 1, m |-> [i \in {0} |-> 0]]
IdleVector == [x |-> 0, y |-> 0, z |-> 0]
IdleAt     == [element |-> -1, row |-> -1, col |-> -1, offset |-> -1]

MatIdle   == A = IdleMatrix /\ A0 = IdleMatrix /\ B = IdleMatrix /\ B0 = IdleMatrix
             /\ R = IdleMatrix /\ swaps = <<>>
ChainIdle == stream = [base |-> 0, step |-> 0] /\ element_ = 0 /\ lastAt = IdleAt
VecIdle   == va = IdleVector /\ va0 = IdleVector /\ vb = IdleVector /\ vb0 = IdleVector
             /\ sc = 0 /\ vr = IdleVector

(***************************************************************************)
(* Specification of the matrix operations: two operands are constructed,   *)
(* then one operation runs.                                                *)
(***************************************************************************)
InitMatrix ==
    /\ layout \in Layouts
    /\ asserts = TRUE
    /\ pc = "start"
    /\ \/ \E Rows \in Dims, K \in Dims, Cols \in Dims :
              /\ A \in Inputs(Rows, K)
              /\ B \in Inputs(K, Cols)
       \/ A = ScenarioLhs /\ B = ScenarioRhs
    /\ A0 = A
    /\ B0 = B
    /\ R = IdleMatrix
    /\ swaps = <<>>
    /\ ChainIdle
    /\ VecIdle

\* R = A * B
Multiply ==
    /\ pc = "start"
    /\ R' \in Mul(A, B)
    /\ pc' = "mul"
    /\ UNCHANGED <<layout, asserts, A, A0, B, B0, swaps, chainVars, vecVars>>

\* R = Matrix::Identity() * A
IdentityTimes ==
    /\ pc = "start"
    /\ IsSquare(A)
    /\ \E I \in Identity(A.rows) : R' \in Mul(I, A)
    /\ pc' = "identity_times"
    /\ UNCHANGED <<layout, asserts, A, A0, B, B0, swaps, chainVars, vecVars>>

\* R = A * Matrix::Identity()
TimesIdentity ==
    /\ pc = "start"
    /\ IsSquare(A)
    /\ \E I \in Identity(A.rows) : R' \in Mul(A, I)
    /\ pc' = "times_identity"
    /\ UNCHANGED <<layout, asserts, A, A0, B, B0, swaps, chainVars, vecVars>>

\* A *= B
MulAssignOther ==
    /\ pc = "start"
    /\ IsSquare(A) /\ IsSquare(B)
    /\ A' \in MulAssign(A, B)
    /\ pc' = "mul_assign"
    /\ UNCHANGED <<layout, asserts, A0, B, B0, R, swaps, chainVars, vecVars>>

\* A *= A
MulAssignSelf ==
    /\ pc = "start"
    /\ IsSquare(A)
    /\ A' \in MulAssign(A, A)
    /\ pc' = "mul_assign_self"
    /\ UNCHANGED <<layout, asserts, A0, B, B0, R, swaps, chainVars, vecVars>>

\* R = A.Transposed()
CallTransposed ==
    /\ pc = "start"
    /\ R' \in Transposed(A)
    /\ pc' = "transposed"
    /\ UNCHANGED <<layout, asserts, A, A0, B, B0, swaps, chainVars, vecVars>>

\* A.Transpose()
CallTranspose ==
    /\ pc = "start"
    /\ IsSquare(A)
    /\ A' = Transpose(A)
    /\ swaps' = TransposeRun(A).swaps
    /\ pc' = "transpose"
    /\ UNCHANGED <<layout, asserts, A0, B, B0, R, chainVars, vecVars>>

NextMatrix ==
    \/ Multiply
    \/ IdentityTimes
    \/ TimesIdentity
    \/ MulAssignOther
    \/ MulAssignSelf
    \/ CallTransposed
    \/ CallTranspose

SpecMatrix == InitMatrix /\ [][NextMatrix]_vars

(***************************************************************************)
(* Properties of the matrix operations.                                    *)
(***************************************************************************)

\* The rows of M in logical terms: AsRows(M)[r + 1][c + 1] is M(r, c).
AsRows(M) == [r \in 1 .. M.rows |-> [c \in 1 .. M.cols |-> Get(M, r - 1, c - 1)]]

\* Two matrices of one shape with the same logical elements.
SameLogical(M, N) ==
    /\ M.rows = N.rows /\ M.cols = N.cols
    /\ DOMAIN M.m = 0 .. (M.rows * M.cols - 1)
    /\ DOMAIN N.m = 0 .. (N.rows * N.cols - 1)
    /\ \A r \in 0 .. M.rows - 1, c \in 0 .. M.cols - 1 : Get(M, r, c) = Get(N, r, c)

\* lhs(r,0)*rhs(0,c) + ... + lhs(r,n-1)*rhs(n-1,c), from zero.
RECURSIVE Sigma(_, _, _, _, _)
Sigma(lhs, rhs, r, c, n) ==
    IF n = 0 THEN 0
    ELSE Sigma(lhs, rhs, r, c, n - 1) + Get(lhs, r, n - 1) * Get(rhs, n - 1, c)

\* C1: A * B is the Rows x Cols matrix with (r,c) = sum over i < K of
\* A(r,i)*B(i,c), under both layouts, for square and non-square shapes; A and B
\* are left as they were; [[1,2,3],[4,5,6]] * [[7,8],[9,10],[11,12]] is
\* [[58,64],[139,154]].
C1_ProductIsRowByColumnSum ==
    pc = "mul" =>
        /\ R.rows = A0.rows /\ R.cols = B0.cols
        /\ DOMAIN R.m = 0 .. (A0.rows * B0.cols - 1)
        /\ \A r \in 0 .. A0.rows - 1, c \in 0 .. B0.cols - 1 :
               Get(R, r, c) = Sigma(A0, B0, r, c, A0.cols)
        /\ A = A0 /\ B = B0
        /\ (A0 = ScenarioLhs /\ B0 = ScenarioRhs)
               => AsRows(R) = << <<58, 64>>, <<139, 154>> >>

C1_Witness ==
    /\ pc = "mul"
    /\ AsRows(A) = << <<1, 2, 3>>, <<4, 5, 6>> >>
    /\ AsRows(B) = << <<7, 8>>, <<9, 10>>, <<11, 12>> >>
    /\ AsRows(R) = << <<58, 64>>, <<139, 154>> >>

\* C2: Transposed() of a Rows x Cols matrix M is the Cols x Rows matrix R with
\* R(c,r) = M(r,c), under both layouts, for square and non-square shapes, and M
\* is left as it was; [[1,2,3],[4,5,6]] gives [[1,4],[2,5],[3,6]].
C2_TransposedMirrorsElements ==
    pc = "transposed" =>
        /\ R.rows = A0.cols /\ R.cols = A0.rows
        /\ DOMAIN R.m = 0 .. (A0.rows * A0.cols - 1)
        /\ \A r \in 0 .. A0.rows - 1, c \in 0 .. A0.cols - 1 :
               Get(R, c, r) = Get(A0, r, c)
        /\ A = A0
        /\ AsRows(A0) = << <<1, 2, 3>>, <<4, 5, 6>> >>
               => AsRows(R) = << <<1, 4>>, <<2, 5>>, <<3, 6>> >>

C2_Witness ==
    /\ pc = "transposed"
    /\ AsRows(A) = << <<1, 2, 3>>, <<4, 5, 6>> >>
    /\ AsRows(R) = << <<1, 4>>, <<2, 5>>, <<3, 6>> >>

\* C3: for a square matrix, the in-place Transpose() leaves the matrix equal, in
\* logical (row, col) terms, to what Transposed() returns for the original,
\* under both layouts.
C3_TransposeAgreesWithTransposed ==
    pc = "transpose" => \A T \in Transposed(A0) : SameLogical(A, T)

C3_Witness ==
    /\ pc = "transpose"
    /\ A.rows = MaxDim
    /\ A # A0
    /\ \A T \in Transposed(A0) : SameLogical(A, T)

\* C4: for a square matrix M, Identity() * M and M * Identity() equal M element
\* by element, Identity() being one on the diagonal and zero off it.
C4_IdentityIsNeutral ==
    pc \in {"identity_times", "times_identity"} =>
        /\ SameLogical(R, A0)
        /\ A = A0
        /\ \A I \in Identity(A0.rows) :
               \A r \in 0 .. A0.rows - 1, c \in 0 .. A0.rows - 1 :
                   Get(I, r, c) = (IF r = c THEN 1 ELSE 0)

C4_Witness ==
    /\ pc = "identity_times"
    /\ A.rows = MaxDim
    /\ Get(A, 0, 0) # Get(A, 0, 1)
    /\ SameLogical(R, A)

\* The unordered pair of physical slots holding logical (i,j) and (j,i).
MirrorPair(N, i, j) == {Index(N, N, i, j), Index(N, N, j, i)}

\* C8: Transpose() on an N x N matrix swaps each unordered off-diagonal pair
\* {(i,j),(j,i)} exactly once, never touches a diagonal element, uses only
\* physical indices in [0, N*N), and makes no swap for N = 1.
C8_TransposeSwapsEachPairOnce ==
    pc = "transpose" =>
        LET N == A0.rows
        IN  /\ \A i \in 0 .. N - 1, j \in 0 .. N - 1 :
                   i < j =>
                       Cardinality({k \in 1 .. Len(swaps) :
                                       {swaps[k][1], swaps[k][2]} = MirrorPair(N, i, j)}) = 1
            /\ \A k \in 1 .. Len(swaps) :
                   /\ swaps[k][1] \in 0 .. N * N - 1
                   /\ swaps[k][2] \in 0 .. N * N - 1
                   /\ \A d \in 0 .. N - 1 :
                          Index(N, N, d, d) \notin {swaps[k][1], swaps[k][2]}
                   /\ \E i \in 0 .. N - 1, j \in 0 .. N - 1 :
                          i < j /\ {swaps[k][1], swaps[k][2]} = MirrorPair(N, i, j)
            /\ (N = 1 => swaps = <<>>)

C8_Witness ==
    /\ pc = "transpose"
    /\ A0.rows = MaxDim
    /\ Len(swaps) = (MaxDim * (MaxDim - 1)) \div 2
    /\ Len(swaps) >= 3

\* C9: for square matrices, M *= R leaves M equal to (old M) * R as the general
\* product computes it from the values held before the call, also when R is M
\* itself; a distinct R is left as it was.
C9_MulAssignIsProductOfOldValue ==
    /\ pc = "mul_assign" =>
           /\ \A P \in Mul(A0, B0) : A = P
           /\ \A r \in 0 .. A0.rows - 1, c \in 0 .. A0.rows - 1 :
                  Get(A, r, c) = Sigma(A0, B0, r, c, A0.rows)
           /\ B = B0
    /\ pc = "mul_assign_self" =>
           /\ \A P \in Mul(A0, A0) : A = P
           /\ \A r \in 0 .. A0.rows - 1, c \in 0 .. A0.rows - 1 :
                  Get(A, r, c) = Sigma(A0, A0, r, c, A0.rows)

C9_Witness ==
    /\ pc = "mul_assign_self"
    /\ A0.rows = MaxDim
    /\ A # A0
    /\ \E r \in 0 .. A0.rows - 1, c \in 0 .. A0.rows - 1 :
           Get(A, r, c) # Get(A0, r, c) * Get(A0, r, c)

(***************************************************************************)
(* Specification of the initializer chain: a matrix with prior contents    *)
(* receives  A << v0, v1, v2, ...  one value at a time, up to MaxExtra     *)
(* values more than it has elements.                                       *)
(***************************************************************************)
InitChain ==
    /\ layout \in Layouts
    /\ asserts \in BOOLEAN
    /\ pc = "start"
    /\ \E Rows \in Dims, Cols \in Dims : A \in Inputs(Rows, Cols)
    /\ A0 = A
    /\ B = IdleMatrix /\ B0 = IdleMatrix /\ R = IdleMatrix /\ swaps = <<>>
    /\ stream \in [base : 0 .. MaxBase, step : 0 .. MaxStep]
    /\ element_ = 0
    /\ lastAt = IdleAt
    /\ VecIdle

\* Initializer::operator , with the cursor at e.  The element access asserts
\* row < Rows and col < Cols; with the assertion compiled out the value is
\* stored at the physical offset of (row, col).  A store past the end of m_ is
\* undefined behaviour: the buffer keeps its contents and the program either
\* goes on or stops.
Feed(e) ==
    LET rc     == InitializerTarget(A.rows, A.cols, e)
        offset == Index(A.rows, A.cols, rc[1], rc[2])
        at     == [element |-> e, row |-> rc[1], col |-> rc[2], offset |-> offset]
    IN  /\ lastAt' = at
        /\ IF ~BoundsAssertPasses(A.rows, A.cols, rc[1], rc[2])
           THEN /\ pc' = "aborted"
                /\ UNCHANGED <<A, element_>>
           ELSE IF offset \in DOMAIN A.m
           THEN /\ A' = InitializerComma(A, e, ValueAt(stream, e))
                /\ element_' = e + 1
                /\ pc' = "chain"
           ELSE \/ /\ pc' = "chain"
                   /\ element_' = e + 1
                   /\ UNCHANGED A
                \/ /\ pc' = "crashed"
                   /\ UNCHANGED <<A, element_>>

\* operator << (matrix, firstValue): a new Initializer with element_ = 0, fed
\* static_cast<T>(firstValue) (I = T here).
ShiftLeft ==
    /\ pc = "start"
    /\ Feed(0)
    /\ UNCHANGED <<layout, asserts, A0, B, B0, R, swaps, stream, vecVars>>

\* Initializer::operator , (nextValue)
Comma ==
    /\ pc = "chain"
    /\ element_ < A.rows * A.cols + MaxExtra
    /\ Feed(element_)
    /\ UNCHANGED <<layout, asserts, A0, B, B0, R, swaps, stream, vecVars>>

NextChain ==
    \/ ShiftLeft
    \/ Comma

SpecChain == InitChain /\ [][NextChain]_vars

\* C5: after  m << v0, ..., v(k-1)  with 1 <= k <= Rows*Cols, m(i / Cols, i % Cols)
\* is v_i for every i < k and every other logical element keeps its prior
\* value, under both layouts; for 2x2, m << 1,2,3,4 gives [[1,2],[3,4]].
C5_ChainFillsInLogicalRowMajorOrder ==
    (pc = "chain" /\ element_ <= A0.rows * A0.cols) =>
        /\ element_ >= 1
        /\ A.rows = A0.rows /\ A.cols = A0.cols
        /\ \A i \in 0 .. A0.rows * A0.cols - 1 :
               Get(A, i \div A0.cols, i % A0.cols) =
                   IF i < element_ THEN ValueAt(stream, i)
                   ELSE Get(A0, i \div A0.cols, i % A0.cols)
        /\ (A0.rows = 2 /\ A0.cols = 2 /\ element_ = 4
                /\ stream = [base |-> 1, step |-> 1])
               => (Get(A, 0, 0) = 1 /\ Get(A, 0, 1) = 2 /\ Get(A, 1, 0) = 3
                   /\ Get(A, 1, 1) = 4)

C5_Witness ==
    /\ pc = "chain"
    /\ layout = "ColMajor"
    /\ A0.rows = 2 /\ A0.cols = 3
    /\ element_ = 4
    /\ AsRows(A0) = << <<2, 2, 2>>, <<2, 2, 2>> >>
    /\ AsRows(A) = << <<0, 1, 2>>, <<3, 2, 2>> >>

\* C10: the chain does not check its cursor: past Rows*Cols values it is not the
\* chain that rejects a value, the cursor keeps advancing, value number
\* i >= Rows*Cols is addressed at (i / Cols, i % Cols) with row >= Rows, only
\* the element access's assertion stops it, and with assertions compiled out
\* the store goes to offset row*Cols+col (row-major) or col*Rows+row
\* (column-major).
C10_ChainOverflowIsGuardedOnlyByAssert ==
    LET n == A0.rows * A0.cols
    IN  /\ lastAt.element >= n =>
               /\ lastAt.row = lastAt.element \div A0.cols
               /\ lastAt.col = lastAt.element % A0.cols
               /\ lastAt.row >= A0.rows
               /\ lastAt.col < A0.cols
               /\ lastAt.offset = (IF layout = "RowMajor"
                                   THEN lastAt.row * A0.cols + lastAt.col
                                   ELSE lastAt.col * A0.rows + lastAt.row)
               /\ (asserts <=> pc = "aborted")
               /\ (pc = "chain" => element_ = lastAt.element + 1)
        /\ pc = "aborted" => (asserts /\ lastAt.element >= n)
        /\ (pc = "chain" /\ ~asserts /\ element_ < n + MaxExtra) => ENABLED Comma

C10_Witness ==
    /\ pc = "chain"
    /\ ~asserts
    /\ layout = "ColMajor"
    /\ A0.rows = 2 /\ A0.cols = 2
    /\ lastAt = [element |-> 4, row |-> 2, col |-> 0, offset |-> 2]
    /\ element_ = 5
    /\ Get(A, 0, 1) = ValueAt(stream, 4)
    /\ Get(A, 0, 1) # ValueAt(stream, 1)

(***************************************************************************)
(* Vector3T<T> over an integer T.                                          *)
(***************************************************************************)

\* a / b on C++ integers: the quotient truncated toward zero (b # 0).
CDiv(a, b) ==
    IF (a >= 0) = (b > 0) THEN (IF a >= 0 THEN a ELSE -a) \div (IF b > 0 THEN b ELSE -b)
    ELSE -((IF a >= 0 THEN a ELSE -a) \div (IF b > 0 THEN b ELSE -b))

\* Vector3T(x, y, z)
Vector3T(x, y, z) == [x |-> x, y |-> y, z |-> z]

\* Vector3T(const Vector3T<T>& rhs)
VecCopy(rhs) == [x |-> rhs.x, y |-> rhs.y, z |-> rhs.z]

\* A plausible slip: y takes rhs.x.
VecAddAssignSlip(this, rhs) ==
    [x |-> this.x + rhs.x, y |-> this.y + rhs.x, z |-> this.z + rhs.z]

\* operator += (const Vector3T<T>& rhs)
VecAddAssign(this, rhs) ==
    [x |-> this.x + rhs.x, y |-> this.y + rhs.y, z |-> this.z + rhs.z]

\* operator -= (const Vector3T<T>& rhs)
VecSubAssign(this, rhs) ==
    [x |-> this.x - rhs.x, y |-> this.y - rhs.y, z |-> this.z - rhs.z]

\* operator *= (const Vector3T<T>& rhs)
VecMulAssign(this, rhs) ==
    [x |-> this.x * rhs.x, y |-> this.y * rhs.y, z |-> this.z * rhs.z]

\* operator /= (const Vector3T<T>& rhs)
VecDivAssign(this, rhs) ==
    [x |-> CDiv(this.x, rhs.x), y |-> CDiv(this.y, rhs.y), z |-> CDiv(this.z, rhs.z)]

\* operator *= (const T& rhs)
VecMulAssignScalar(this, rhs) ==
    [x |-> this.x * rhs, y |-> this.y * rhs, z |-> this.z * rhs]

\* operator /= (const T& rhs)
VecDivAssignScalar(this, rhs) ==
    [x |-> CDiv(this.x, rhs), y |-> CDiv(this.y, rhs), z |-> CDiv(this.z, rhs)]

\* operator + (lhs, rhs): auto result = lhs; result += rhs;
VecAdd(lhs, rhs) == VecAddAssign(VecCopy(lhs), rhs)

\* operator - (lhs, rhs): auto result = lhs; result -= rhs;
VecSub(lhs, rhs) == VecSubAssign(VecCopy(lhs), rhs)

\* operator * (lhs, rhs), two vectors: auto result = lhs; result *= rhs;
VecMul(lhs, rhs) == VecMulAssign(VecCopy(lhs), rhs)

\* operator / (lhs, rhs), two vectors: auto result = lhs; result *= rhs;
VecDiv(lhs, rhs) == VecMulAssign(VecCopy(lhs), rhs)

\* operator * (const Vector3T<T>& lhs, const T& rhs)
VecMulScalar(lhs, rhs) == VecMulAssignScalar(VecCopy(lhs), rhs)

\* operator * (const T& lhs, const Vector3T<T>& rhs)
ScalarMulVec(lhs, rhs) == VecMulAssignScalar(VecCopy(rhs), lhs)

\* operator / (const Vector3T<T>& lhs, const T& rhs)
VecDivScalar(lhs, rhs) == VecDivAssignScalar(VecCopy(lhs), rhs)

NoZeroComponent(v) == v.x # 0 /\ v.y # 0 /\ v.z # 0

(***************************************************************************)
(* Specification of the vector operations: two vectors are constructed,    *)
(* then one operator runs.  An integer division by zero is undefined       *)
(* behaviour; the run stops there.                                         *)
(***************************************************************************)
Components == -MaxComp .. MaxComp

\* The scalar operands: the components' range and the documented factor 3.
Scalars == Components \cup {3}

InitVector ==
    /\ layout = "ColMajor"
    /\ asserts = TRUE
    /\ pc = "start"
    /\ MatIdle
    /\ ChainIdle
    /\ \/ /\ va \in { Vector3T(x, y, z) : x \in Components, y \in Components,
                                           z \in Components }
          /\ vb \in { Vector3T(s, s + d, s + 2 * d) : s \in Components,
                                                      d \in -MaxStep .. MaxStep }
       \/ va = Vector3T(1, 2, 3) /\ vb = Vector3T(4, 5, 6)
    /\ va0 = va
    /\ vb0 = vb
    /\ sc = 0
    /\ vr = IdleVector

\* The compound operators with a vector: va op= vb.
CompoundWithVector ==
    /\ pc = "start"
    /\ \/ va' = VecAddAssign(va, vb) /\ pc' = "add_assign"
       \/ va' = VecSubAssign(va, vb) /\ pc' = "sub_assign"
       \/ va' = VecMulAssign(va, vb) /\ pc' = "mul_assign_v"
       \/ NoZeroComponent(vb) /\ va' = VecDivAssign(va, vb) /\ pc' = "div_assign_v"
       \/ ~NoZeroComponent(vb) /\ va' = va /\ pc' = "division_by_zero"
    /\ UNCHANGED <<layout, asserts, matVars, chainVars, va0, vb, vb0, sc, vr>>

\* The compound operators with a scalar: va *= s, va /= s.
CompoundWithScalar ==
    /\ pc = "start"
    /\ \E s \in Scalars :
           /\ sc' = s
           /\ \/ va' = VecMulAssignScalar(va, s) /\ pc' = "mul_assign_s"
              \/ s # 0 /\ va' = VecDivAssignScalar(va, s) /\ pc' = "div_assign_s"
              \/ s = 0 /\ va' = va /\ pc' = "division_by_zero"
    /\ UNCHANGED <<layout, asserts, matVars, chainVars, va0, vb, vb0, vr>>

\* The free operators on two vectors: vr = va op vb.
BinaryWithVector ==
    /\ pc = "start"
    /\ \/ vr' = VecAdd(va, vb) /\ pc' = "add"
       \/ vr' = VecSub(va, vb) /\ pc' = "sub"
       \/ vr' = VecMul(va, vb) /\ pc' = "mul_v"
       \/ vr' = VecDiv(va, vb) /\ pc' = "div_v"
    /\ UNCHANGED <<layout, asserts, matVars, chainVars, va, va0, vb, vb0, sc>>

\* The free operators on a vector and a scalar: vr = va * s, s * va, va / s.
BinaryWithScalar ==
    /\ pc = "start"
    /\ \E s \in Scalars :
           /\ sc' = s
           /\ \/ vr' = VecMulScalar(va, s) /\ pc' = "mul_s"
              \/ vr' = ScalarMulVec(s, va) /\ pc' = "s_mul"
              \/ s # 0 /\ vr' = VecDivScalar(va, s) /\ pc' = "div_s"
              \/ s = 0 /\ vr' = vr /\ pc' = "division_by_zero"
    /\ UNCHANGED <<layout, asserts, matVars, chainVars, va, va0, vb, vb0>>

NextVector ==
    \/ CompoundWithVector
    \/ CompoundWithScalar
    \/ BinaryWithVector
    \/ BinaryWithScalar

SpecVector == InitVector /\ [][NextVector]_vars

\* C6: +=, -=, *=, /= with a vector replace each of x, y, z by the operator
\* applied to that component and the same component of the right-hand side;
\* *= and /= with a scalar apply the scalar to all three components; the free
\* + (vector, vector) and * (vector, scalar) return the component-wise results
\* and leave their operands as they were; (1,2,3) + (4,5,6) is (5,7,9) and
\* (2,2,2) * 3 is (6,6,6).
C6_VectorOperatorsAreComponentWise ==
    /\ pc = "add_assign" =>
           (va.x = va0.x + vb0.x /\ va.y = va0.y + vb0.y /\ va.z = va0.z + vb0.z)
    /\ pc = "sub_assign" =>
           (va.x = va0.x - vb0.x /\ va.y = va0.y - vb0.y /\ va.z = va0.z - vb0.z)
    /\ pc = "mul_assign_v" =>
           (va.x = va0.x * vb0.x /\ va.y = va0.y * vb0.y /\ va.z = va0.z * vb0.z)
    /\ pc = "div_assign_v" =>
           /\ va.x = CDiv(va0.x, vb0.x)
           /\ va.y = CDiv(va0.y, vb0.y)
           /\ va.z = CDiv(va0.z, vb0.z)
    /\ pc = "mul_assign_s" =>
           (va.x = va0.x * sc /\ va.y = va0.y * sc /\ va.z = va0.z * sc)
    /\ pc = "div_assign_s" =>
           (va.x = CDiv(va0.x, sc) /\ va.y = CDiv(va0.y, sc) /\ va.z = CDiv(va0.z, sc))
    /\ pc = "add" =>
           /\ vr.x = va0.x + vb0.x /\ vr.y = va0.y + vb0.y /\ vr.z = va0.z + vb0.z
           /\ va = va0 /\ vb = vb0
           /\ (va0 = Vector3T(1, 2, 3) /\ vb0 = Vector3T(4, 5, 6))
                  => vr = Vector3T(5, 7, 9)
    /\ pc = "mul_s" =>
           /\ vr.x = va0.x * sc /\ vr.y = va0.y * sc /\ vr.z = va0.z * sc
           /\ va = va0
           /\ (va0 = Vector3T(2, 2, 2) /\ sc = 3) => vr = Vector3T(6, 6, 6)
    /\ vb = vb0

C6_Witness ==
    /\ pc = "add"
    /\ va = Vector3T(1, 2, 3)
    /\ vb = Vector3T(4, 5, 6)
    /\ vr = Vector3T(5, 7, 9)

\* C7: for vectors a and b, b without a zero component, a / b is the
\* component-wise quotient (a.x / b.x, a.y / b.y, a.z / b.z): what /= b makes
\* of a copy of a.
C7_VectorQuotientIsComponentWise ==
    (pc = "div_v" /\ NoZeroComponent(vb0)) =>
        /\ vr = Vector3T(CDiv(va0.x, vb0.x), CDiv(va0.y, vb0.y), CDiv(va0.z, vb0.z))
        /\ vr = VecDivAssign(VecCopy(va0), vb0)

====
